---------------------------- MODULE Spec2Model ----------------------------
(***************************************************************************)
(* A model of tcgit_rust (src/src/main.rs): the full-screen presenter.     *)
(*                                                                         *)
(* main() and run_app() run on one thread; pc is that thread's position.   *)
(* Every fallible call (`?`) is an action with a success and a failure     *)
(* outcome.  usize values are written as integers; a negative integer      *)
(* stands for a value that left the range of usize (debug builds panic at  *)
(* the subtraction, release builds wrap and panic at the next draw).       *)
(***************************************************************************)
EXTENDS Integers, Sequences, FiniteSets, TLC

VARIABLES
    pc,           \* position of the main thread in main()/run_app()
    term,         \* terminal: raw_mode, alt_screen, mouse_capture, cursor_hidden
    app,          \* struct App: current_tab, tabs, status, branch
    screen,       \* the frame last drawn by terminal.draw (NoFrame before)
    event,        \* the event last returned by event::read() (NoEvent before)
    elapsed,      \* last_tick.elapsed(), in milliseconds (saturating)
    res,          \* main's `res`: the value returned by run_app
    main_result,  \* the value returned by main
    failed_step,  \* the call of main whose `?` returned early
    printed,      \* whether println!("{err:?}") ran
    nav           \* the navigation keys (Tab/BackTab) handled so far, in order,
                  \* each with the value of current_tab its arm assigned

vars == <<pc, term, app, screen, event, elapsed, res, main_result,
          failed_step, printed, nav>>

---------------------------------------------------------------------------
(* Bounds of the model *)

\* at most this many navigation keys are handled in one run
MaxNav == 5

\* last_tick.elapsed() is tracked up to this many milliseconds
MaxElapsed == 500

---------------------------------------------------------------------------
(* Program constants *)

\* Duration::from_millis(250)
tick_rate == 250

\* app.tabs.len(): App::new builds four tabs and nothing pushes or pops
tab_count == 4

\* the time, in milliseconds, one call may take in the model
Delays == {0, 100, 250}

NoFrame == [drawn |-> FALSE]
NoEvent == [kind |-> "None"]

KeyCodes == {"Char_q", "Char_Q", "Char_c", "Tab", "BackTab", "Esc"}
KeyModifiers == {"NONE", "CONTROL"}

\* crossterm::event::Event as read by event::read()
Events ==
    [kind : {"Key"}, code : KeyCodes, modifiers : KeyModifiers]
      \cup {[kind |-> "Mouse"], [kind |-> "Resize"]}

Min(a, b) == IF a < b THEN a ELSE b

---------------------------------------------------------------------------
(* struct App and App::new *)

App_new ==
    [current_tab |-> 0,
     tabs        |-> <<"Status", "Changes", "History", "Settings">>,
     status      |-> "Ready",
     branch      |-> "main"]

---------------------------------------------------------------------------
(* fn ui *)

\* app.tabs.iter().position(|x| x == i): the 0-based index of the first equal
\* element (the code unwraps it; i is always an element of tabs)
position(tabs, i) ==
    (CHOOSE j \in 1..Len(tabs) :
        /\ tabs[j] = i
        /\ \A k \in 1..(j - 1) : tabs[k] # i) - 1

\* the `match app.current_tab` of ui; "unreachable" is the `_` arm
content(current_tab) ==
    CASE current_tab = 0 -> "Status View"
      [] current_tab = 1 -> "Changes View"
      [] current_tab = 2 -> "History View"
      [] current_tab = 3 -> "Settings View"
      [] OTHER -> "unreachable"

\* ui panics at unreachable!() or at the index app.tabs[app.current_tab]
ui_panics(a) ==
    \/ content(a.current_tab) = "unreachable"
    \/ a.current_tab < 0
    \/ a.current_tab >= Len(a.tabs)

\* ui comparing current_tab with the 1-based place of the entry
ui_highlight_off_by_one(a) ==
    [drawn   |-> TRUE,
     header  |-> <<"Git TUI ", "[", a.branch, "]">>,
     sidebar |-> [n \in 1..Len(a.tabs) |->
                    [text |-> a.tabs[n],
                     fg   |-> IF a.current_tab = position(a.tabs, a.tabs[n]) + 1
                              THEN "Yellow" ELSE "White"]],
     content |-> content(a.current_tab),
     title   |-> a.tabs[a.current_tab + 1],
     footer  |-> <<"Status: ", a.status, " | ", "Press 'q' to quit">>]

\* the frame ui renders for an App it does not panic on
ui(a) ==
    [drawn   |-> TRUE,
     header  |-> <<"Git TUI ", "[", a.branch, "]">>,
     sidebar |-> [n \in 1..Len(a.tabs) |->
                    [text |-> a.tabs[n],
                     fg   |-> IF a.current_tab = position(a.tabs, a.tabs[n])
                              THEN "Yellow" ELSE "White"]],
     content |-> content(a.current_tab),
     title   |-> a.tabs[a.current_tab + 1],
     footer  |-> <<"Status: ", a.status, " | ", "Press 'q' to quit">>]

---------------------------------------------------------------------------
(* fn run_app: the match on key.code *)

\* on_key with one arm changed, each the way a slip in that arm would change it
on_key_with(a, code, tab, backtab, other, quits) ==
    CASE code \in quits -> [ret |-> "return_ok", app |-> a]
      [] code = "Tab" -> [ret |-> "continue", app |-> [a EXCEPT !.current_tab = tab]]
      [] code = "BackTab" ->
           [ret |-> "continue", app |-> [a EXCEPT !.current_tab = backtab]]
      [] OTHER -> [ret |-> "continue", app |-> [a EXCEPT !.current_tab = other]]

on_key_back(a) == IF a.current_tab > 0 THEN a.current_tab - 1 ELSE Len(a.tabs) - 1
on_key_tab(a) == (a.current_tab + 1) % Len(a.tabs)

\* Tab without the `% app.tabs.len()`
on_key_tab_unwrapped(a, code) ==
    on_key_with(a, code, a.current_tab + 1, on_key_back(a), a.current_tab,
                {"Char_q"})

\* Tab wrapping one entry early: `% (app.tabs.len() - 1)`
on_key_tab_short_cycle(a, code) ==
    on_key_with(a, code, (a.current_tab + 1) % (Len(a.tabs) - 1), on_key_back(a),
                a.current_tab, {"Char_q"})

\* BackTab without the `if app.current_tab > 0` guard
on_key_backtab_unguarded(a, code) ==
    on_key_with(a, code, on_key_tab(a), a.current_tab - 1, a.current_tab,
                {"Char_q"})

\* the `_` arm resetting the selection
on_key_other_resets(a, code) ==
    on_key_with(a, code, on_key_tab(a), on_key_back(a), 0, {"Char_q"})

\* Esc quitting as well as 'q'
on_key_esc_quits(a, code) ==
    on_key_with(a, code, on_key_tab(a), on_key_back(a), a.current_tab,
                {"Char_q", "Esc"})

\* the value of run_app's match for one key: "return_ok" for `return Ok(())`,
\* "continue" otherwise, and the App after it
on_key(a, code) ==
    CASE code = "Char_q" -> [ret |-> "return_ok", app |-> a]
      [] code = "Tab" ->
           [ret |-> "continue",
            app |-> [a EXCEPT !.current_tab =
                                 (a.current_tab + 1) % Len(a.tabs)]]
      [] code = "BackTab" ->
           [ret |-> "continue",
            app |-> [a EXCEPT !.current_tab =
                                 IF a.current_tab > 0
                                 THEN a.current_tab - 1
                                 ELSE Len(a.tabs) - 1]]
      [] OTHER -> [ret |-> "continue", app |-> a]

\* `if let Event::Key(key) = event::read()?`: only key events reach the match
on_event(a, e) ==
    IF e.kind = "Key" THEN on_key(a, e.code) ELSE [ret |-> "continue", app |-> a]

---------------------------------------------------------------------------
(* crossterm's execute!(w, c1, .., cn): the commands are written in order  *)
(* and flushed; on an error any prefix of them may have taken effect.      *)

ExecuteOutcomes(n) ==
    {[ok |-> TRUE, applied |-> n]} \cup {[ok |-> FALSE, applied |-> k] : k \in 0..n}

---------------------------------------------------------------------------
Init ==
    /\ pc = "enable_raw_mode"
    /\ term = [raw_mode |-> FALSE, alt_screen |-> FALSE,
               mouse_capture |-> FALSE, cursor_hidden |-> FALSE]
    /\ app = App_new
    /\ screen = NoFrame
    /\ event = NoEvent
    /\ elapsed = 0
    /\ res = "none"
    /\ main_result = "none"
    /\ failed_step = "none"
    /\ printed = FALSE
    /\ nav = <<>>

\* `?` in main on an Err: main returns the error at once
ReturnErr(step) ==
    /\ pc' = "exit"
    /\ main_result' = "Err"
    /\ failed_step' = step

\* enable_raw_mode()?
EnableRawMode ==
    /\ pc = "enable_raw_mode"
    /\ \/ /\ term' = [term EXCEPT !.raw_mode = TRUE]
          /\ pc' = "enter_alternate_screen"
          /\ UNCHANGED <<main_result, failed_step>>
       \/ /\ ReturnErr("enable_raw_mode")
          /\ UNCHANGED term
    /\ UNCHANGED <<app, screen, event, elapsed, res, printed, nav>>

\* execute!(stdout, EnterAlternateScreen, EnableMouseCapture)?
EnterAlternateScreen ==
    /\ pc = "enter_alternate_screen"
    /\ \E o \in ExecuteOutcomes(2) :
         /\ term' = [term EXCEPT !.alt_screen = (o.applied >= 1) \/ @,
                                 !.mouse_capture = (o.applied >= 2) \/ @]
         /\ IF o.ok
            THEN pc' = "terminal_new" /\ UNCHANGED <<main_result, failed_step>>
            ELSE ReturnErr("enter_alternate_screen")
    /\ UNCHANGED <<app, screen, event, elapsed, res, printed, nav>>

\* Terminal::new(backend)?, then App::new() and the entry of run_app
TerminalNew ==
    /\ pc = "terminal_new"
    /\ \/ /\ pc' = "draw"
          /\ app' = App_new
          /\ elapsed' = 0
          /\ UNCHANGED <<main_result, failed_step>>
       \/ /\ ReturnErr("terminal_new")
          /\ UNCHANGED <<app, elapsed>>
    /\ UNCHANGED <<term, screen, event, res, printed, nav>>

\* run_app returns Err(e) through one of its `?`
RunAppErr ==
    /\ res' = "Err"
    /\ pc' = "disable_raw_mode"

\* terminal.draw(|f| ui(f, &app))?
Draw ==
    /\ pc = "draw"
    /\ \/ /\ IF ui_panics(app)
             THEN pc' = "panic" /\ UNCHANGED <<screen, term>>
             ELSE /\ pc' = "poll"
                  /\ screen' = ui(app)
                  /\ term' = [term EXCEPT !.cursor_hidden = TRUE]
          /\ \E d \in Delays : elapsed' = Min(elapsed + d, MaxElapsed)
          /\ UNCHANGED res
       \/ /\ ~ui_panics(app)
          /\ RunAppErr
          /\ UNCHANGED <<screen, term, elapsed>>
    /\ UNCHANGED <<app, event, main_result, failed_step, printed, nav>>

\* tick_rate.checked_sub(last_tick.elapsed()).unwrap_or_else(|| 0)
timeout(e) == IF tick_rate >= e THEN tick_rate - e ELSE 0

\* crossterm::event::poll(timeout)?
Poll ==
    /\ pc = "poll"
    /\ \/ \E d \in Delays :          \* an event is ready within the timeout
            /\ d <= timeout(elapsed)
            /\ pc' = "read"
            /\ elapsed' = Min(elapsed + d, MaxElapsed)
            /\ UNCHANGED res
       \/ /\ pc' = "tick"             \* the timeout passes with no event
          /\ elapsed' = Min(elapsed + timeout(elapsed), MaxElapsed)
          /\ UNCHANGED res
       \/ /\ RunAppErr
          /\ UNCHANGED elapsed
    /\ UNCHANGED <<term, app, screen, event, main_result, failed_step,
                   printed, nav>>

\* event::read()? and the match on the event
Read ==
    /\ pc = "read"
    /\ \/ \E e \in Events :
            LET r == on_event(app, e)
                isNav == e.kind = "Key" /\ e.code \in {"Tab", "BackTab"}
            IN  /\ isNav => Len(nav) < MaxNav
                /\ event' = e
                /\ app' = r.app
                /\ nav' = IF isNav
                          THEN Append(nav, [code |-> e.code,
                                            tab  |-> r.app.current_tab])
                          ELSE nav
                /\ IF r.ret = "return_ok"
                   THEN res' = "Ok" /\ pc' = "disable_raw_mode"
                   ELSE /\ UNCHANGED res
                        /\ IF r.app.current_tab < 0
                           THEN pc' \in {"panic", "tick"}
                           ELSE pc' = "tick"
       \/ /\ RunAppErr
          /\ UNCHANGED <<app, event, nav>>
    /\ UNCHANGED <<term, screen, elapsed, main_result, failed_step, printed>>

\* if last_tick.elapsed() >= tick_rate { last_tick = Instant::now(); }
Tick ==
    /\ pc = "tick"
    /\ elapsed' = IF elapsed >= tick_rate THEN 0 ELSE elapsed
    /\ pc' = "draw"
    /\ UNCHANGED <<term, app, screen, event, res, main_result, failed_step,
                   printed, nav>>

\* disable_raw_mode()?
DisableRawMode ==
    /\ pc = "disable_raw_mode"
    /\ \/ /\ term' = [term EXCEPT !.raw_mode = FALSE]
          /\ pc' = "leave_alternate_screen"
          /\ UNCHANGED <<main_result, failed_step>>
       \/ /\ ReturnErr("disable_raw_mode")
          /\ UNCHANGED term
    /\ UNCHANGED <<app, screen, event, elapsed, res, printed, nav>>

\* execute!(terminal.backend_mut(), LeaveAlternateScreen, DisableMouseCapture)?
LeaveAlternateScreen ==
    /\ pc = "leave_alternate_screen"
    /\ \E o \in ExecuteOutcomes(2) :
         /\ term' = [term EXCEPT !.alt_screen = (o.applied < 1) /\ @,
                                 !.mouse_capture = (o.applied < 2) /\ @]
         /\ IF o.ok
            THEN pc' = "show_cursor" /\ UNCHANGED <<main_result, failed_step>>
            ELSE ReturnErr("leave_alternate_screen")
    /\ UNCHANGED <<app, screen, event, elapsed, res, printed, nav>>

\* terminal.show_cursor()?
ShowCursor ==
    /\ pc = "show_cursor"
    /\ \/ /\ term' = [term EXCEPT !.cursor_hidden = FALSE]
          /\ pc' = "report"
          /\ UNCHANGED <<main_result, failed_step>>
       \/ /\ ReturnErr("show_cursor")
          /\ UNCHANGED term
    /\ UNCHANGED <<app, screen, event, elapsed, res, printed, nav>>

\* main ending in `res?` instead of printing the error
Report_propagates ==
    /\ pc = "report"
    /\ printed' = FALSE
    /\ main_result' = IF res = "Err" THEN "Err" ELSE "Ok"
    /\ pc' = "exit"
    /\ UNCHANGED <<term, app, screen, event, elapsed, res, failed_step, nav>>

\* if let Err(err) = res { println!("{err:?}"); }  Ok(())
Report ==
    /\ pc = "report"
    /\ printed' = (res = "Err")
    /\ main_result' = "Ok"
    /\ pc' = "exit"
    /\ UNCHANGED <<term, app, screen, event, elapsed, res, failed_step, nav>>

Next ==
    \/ EnableRawMode
    \/ EnterAlternateScreen
    \/ TerminalNew
    \/ Draw
    \/ Poll
    \/ Read
    \/ Tick
    \/ DisableRawMode
    \/ LeaveAlternateScreen
    \/ ShowCursor
    \/ Report

Spec == Init /\ [][Next]_vars

---------------------------------------------------------------------------
(* Properties *)

LoopPcs == {"draw", "poll", "read", "tick"}
SetupSteps == {"enable_raw_mode", "enter_alternate_screen", "terminal_new"}
TeardownSteps == {"disable_raw_mode", "leave_alternate_screen", "show_cursor"}

Released ==
    /\ ~term.raw_mode
    /\ ~term.alt_screen
    /\ ~term.mouse_capture
    /\ ~term.cursor_hidden

\* a Read step that got an event (no I/O error) and ran the match on it
ReadStep == pc = "read" /\ res' # "Err"
ReadKey(codes) == ReadStep /\ event'.kind = "Key" /\ event'.code \in codes

\* C1: raw mode and the alternate screen are on while run_app's loop runs, and
\* main never returns with raw mode, the alternate screen, mouse capture or a
\* hidden cursor still in effect, on any exit path.
C1_ReleasedOnEveryExit ==
    /\ pc \in LoopPcs => term.raw_mode /\ term.alt_screen
    /\ pc = "exit" => Released

\* C2: in every reachable state 0 <= current_tab < tab_count, the tab list has
\* tab_count entries, and neither unreachable!() nor an out-of-range index of
\* tabs is ever hit.
C2_TabInRange ==
    /\ app.current_tab \in 0..(tab_count - 1)
    /\ Len(app.tabs) = tab_count
    /\ pc # "panic"
    /\ ~ui_panics(app)

C2_Witness ==
    /\ Len(nav) >= 2
    /\ \E j, k \in 1..Len(nav) : nav[j].code = "Tab" /\ nav[k].code = "BackTab"
    /\ app.current_tab = tab_count - 1
    /\ screen.drawn
    /\ pc = "draw"

\* the selection before the k-th navigation key was handled
TabBefore(k) == IF k = 1 THEN App_new.current_tab ELSE nav[k - 1].tab

\* C3: each Tab moves the selection from i to (i + 1) mod tab_count, and
\* tab_count Tabs in a row, with no other navigation key in between, bring the
\* selection back to where it was (to 0 when they start at 0).
C3_ForwardCyclic ==
    /\ [][ReadKey({"Tab"}) =>
            /\ app'.current_tab = (app.current_tab + 1) % tab_count
            /\ pc' = "tick"]_vars
    /\ [](\A k \in 1..Len(nav) :
            (/\ k + tab_count - 1 <= Len(nav)
             /\ \A j \in k..(k + tab_count - 1) : nav[j].code = "Tab")
            => nav[k + tab_count - 1].tab = TabBefore(k))

C3_Witness ==
    /\ Len(nav) = tab_count
    /\ \A j \in 1..tab_count : nav[j].code = "Tab"
    /\ app.current_tab = 0
    /\ pc = "tick"

\* C4: Shift+Tab (BackTab) sets the selection to tab_count - 1 from 0 and to
\* i - 1 from i > 0; the result never leaves the range of usize.
C4_BackwardWraps ==
    [][ReadKey({"BackTab"}) =>
        /\ app'.current_tab = IF app.current_tab = 0
                              THEN tab_count - 1
                              ELSE app.current_tab - 1
        /\ app'.current_tab >= 0
        /\ pc' = "tick"]_vars

C4_Witness ==
    /\ Len(nav) >= 2
    /\ nav[1].code = "BackTab" /\ nav[1].tab = tab_count - 1
    /\ nav[2].code = "BackTab" /\ nav[2].tab = tab_count - 2
    /\ app.current_tab = tab_count - 2

\* C5: only a Tab or BackTab key event changes current_tab; a poll timeout, a
\* non-key event and every other key leave it alone, and no step changes the
\* tab list, the branch name or the status text.
C5_OnlyNavigationMutates ==
    [][/\ app'.tabs = app.tabs
       /\ app'.branch = app.branch
       /\ app'.status = app.status
       /\ app'.current_tab # app.current_tab => ReadKey({"Tab", "BackTab"})]_vars

C5_Witness ==
    /\ pc = "tick"
    /\ event.kind = "Resize"
    /\ app.current_tab = 2
    /\ elapsed >= tick_rate

\* C6: once 'q' is read run_app returns Ok with no further draw or read, and
\* main then has raw mode disabled, the alternate screen left and the cursor
\* shown when it exits.
C6_QuitRestores ==
    /\ res = "Ok" => /\ event.kind = "Key" /\ event.code = "Char_q"
                     /\ pc \notin LoopPcs
    /\ (pc = "exit" /\ res = "Ok") =>
          ~term.raw_mode /\ ~term.alt_screen /\ ~term.cursor_hidden

\* C7: an Err from run_app is not fatal: when the teardown calls succeed the
\* terminal is restored, the error is printed and main returns Ok.  main
\* returns Err only for a failed setup or teardown call.
C7_OnlyTerminalFailuresFatal ==
    /\ (pc = "exit" /\ res = "Err") =>
          \/ main_result = "Ok" /\ printed /\ Released /\ failed_step = "none"
          \/ main_result = "Err" /\ failed_step \in TeardownSteps
    /\ main_result = "Err" =>
          /\ failed_step \in SetupSteps \cup TeardownSteps
          /\ failed_step \in SetupSteps => res = "none"
    /\ (pc = "exit" /\ failed_step = "none") => main_result = "Ok"
    /\ printed => res = "Err"

C7_Witness ==
    /\ pc = "exit"
    /\ res = "Err"
    /\ main_result = "Ok"
    /\ printed
    /\ Released

\* the sidebar entries (0-based) drawn in the highlight colour
Highlighted(frame) ==
    {n - 1 : n \in {m \in DOMAIN frame.sidebar : frame.sidebar[m].fg = "Yellow"}}

\* C9: whenever the loop waits for or reads input, the frame on the screen is
\* the one for the current selection i: the panel is titled tabs[i], holds the
\* content of tab i, and exactly sidebar entry i is highlighted.
C9_DrawnBeforeInput ==
    pc \in {"poll", "read"} =>
        /\ screen.drawn
        /\ screen.title = app.tabs[app.current_tab + 1]
        /\ Highlighted(screen) = {app.current_tab}
        /\ app.current_tab = 0 => screen.title = "Status" /\ screen.content = "Status View"
        /\ app.current_tab = 1 => screen.title = "Changes" /\ screen.content = "Changes View"
        /\ app.current_tab = 2 => screen.title = "History" /\ screen.content = "History View"
        /\ app.current_tab = 3 => screen.title = "Settings" /\ screen.content = "Settings View"
        /\ screen.header = <<"Git TUI ", "[", app.branch, "]">>

C9_Witness ==
    /\ pc = "read"
    /\ app.current_tab = 2
    /\ screen.drawn
    /\ screen.title = "History"
    /\ Highlighted(screen) = {2}
    /\ Len(nav) >= 2

\* C10: run_app leaves its loop only by returning Ok, which it does exactly
\* when the key 'q' is read, or by returning Err from draw, poll or read; no
\* other key, no non-key event and no tick ends the loop.
C10_LoopExits ==
    /\ [][(pc \in LoopPcs /\ pc' \notin LoopPcs) =>
            /\ pc' = "disable_raw_mode"
            /\ res' \in {"Ok", "Err"}
            /\ res' = "Ok" => ReadKey({"Char_q"})
            /\ res = "none"]_vars
    /\ [][ReadKey({"Char_q"}) => res' = "Ok" /\ pc' = "disable_raw_mode"]_vars
    /\ [][(ReadStep /\ ~ReadKey({"Char_q"})) => pc' = "tick" /\ res' = "none"]_vars
    /\ [][(pc = "tick" \/ (pc = "poll" /\ res' # "Err")) => pc' \in LoopPcs]_vars

C10_Witness ==
    /\ pc = "draw"
    /\ event.kind = "Key" /\ event.code = "Char_c" /\ event.modifiers = "CONTROL"
    /\ res = "none"
    /\ elapsed = 0

=============================================================================
